---- MODULE Spec2Model ----
(***************************************************************************)
(* A model of measure.py: the sensor-to-telemetry sample loop.             *)
(*                                                                         *)
(* One process runs run(): it loads the configuration, initialises the     *)
(* enabled sensor drivers, and then loops forever; every iteration (tick)  *)
(* reads the enabled sensors in a fixed order, setting attributes on the   *)
(* current OpenTelemetry span, and sleeps.                                 *)
(*                                                                         *)
(* Time is counted in units of the 0.5 s poll wait of read_real_co2, so    *)
(* one second is TicksPerSecond units.  Only the time since the start of   *)
(* the current tick matters to the program, so the model keeps `elapsed`   *)
(* (time.time() - start) instead of the wall clock.                        *)
(*                                                                         *)
(* A value that may be None is a sequence: <<>> is None and <<v>> is v.     *)
(* A sensors list is modelled by the set of its entries, since the code    *)
(* only tests membership in it.                                            *)
(***************************************************************************)
EXTENDS Integers, Sequences, FiniteSets, TLC

None == <<>>
Some(v) == <<v>>

\* ---- program constants ------------------------------------------------
SENSOR_PM25 == "pm25"
SENSOR_SGP30 == "sgp30"
SENSOR_SCD30 == "scd30"
SENSOR_MS8607 == "ms8607"
DEFAULT_SENSORS == {SENSOR_PM25, SENSOR_SGP30}
BASELINE_FREQUENCY == 60
\* range(30) in read_real_co2
POLL_TRIES == 30
\* time.sleep(0.5) in read_real_co2: two poll waits make one second
TicksPerSecond == 2
\* the floor of the end-of-tick sleep, in seconds: max(..., 1)
MIN_SLEEP == 1

\* ---- bounds of the model ----------------------------------------------
\* volatile-organic reads a run is followed for (two wraps of the counter need 61)
MaxReads == 62
\* ticks a run without the volatile-organic sensor is followed for
MaxTicks == 3
\* seconds of bus I/O a tick may take on top of the poll waits
MaxIoDelay == 1

KnownSensors == {SENSOR_PM25, SENSOR_SGP30, SENSOR_SCD30, SENSOR_MS8607}
\* the order of the reads in the loop body of run()
ReadOrder == <<SENSOR_PM25, SENSOR_SGP30, SENSOR_SCD30, SENSOR_MS8607>>

\* ---- the configuration file --------------------------------------------
\* What YAML().load gives for the files the sample loop is followed on.
LoopConfigs ==
    [sensors : {None} \cup {Some(l) : l \in SUBSET KnownSensors},
     quiet : {None, Some(TRUE)},
     sample_frequency : {None, Some(5)},
     location : {Some("attic")}]

\* A wider set of files, for the start-up code alone: a sensors list may be
\* empty or name a kind the program does not know, values may be falsy.
AllConfigs ==
    [sensors : {None} \cup {Some(l) : l \in SUBSET (KnownSensors \cup {"bme280"})},
     quiet : {None, Some(FALSE), Some(TRUE)},
     sample_frequency : {None, Some(0), Some(5)},
     location : {None, Some(""), Some("attic")}]

VARIABLES
    config,            \* what read_config() returns: a mapping, or None
    pc,                \* where run() is
    pm25, sgp30, scd30, ms8607,   \* the sensor handles of run(): None or a driver
    location, quiet, sleep_seconds,
    baseline_counter,
    i,                 \* the loop variable _i of read_real_co2
    elapsed,           \* time.time() - start, in poll waits
    span_ended,        \* spans of the tracer that have ended (been handed to the exporter)
    exit_status,       \* None while the process runs
    \* history of the current tick
    emitted,           \* attribute keys set on the current span in this tick
    printed,           \* whether the tick wrote to the console
    read_log,          \* the sensor reads invoked in this tick, in order
    pm_retry,          \* the particulate read of this tick raised RuntimeError
    co2_checks,        \* data_available checks of this tick
    co2_waits,         \* 0.5 s waits of this tick
    sleeps,            \* the end-of-tick sleeps of this tick, in poll waits
    \* history of the run
    ticks,             \* completed loop iterations
    reads,             \* calls of read_volatiles
    failure            \* the call whose exception left run(), or NoFailure

vars == <<config, pc, pm25, sgp30, scd30, ms8607, location, quiet, sleep_seconds,
          baseline_counter, i, elapsed, span_ended, exit_status, emitted, printed,
          read_log, pm_retry, co2_checks, co2_waits, sleeps, ticks, reads, failure>>

handles == <<pm25, sgp30, scd30, ms8607>>
params == <<location, quiet, sleep_seconds>>
tick_hist == <<emitted, printed, read_log, pm_retry, co2_checks, co2_waits, sleeps>>

NoFailure == ""

Max(a, b) == IF a >= b THEN a ELSE b

\* ---- attribute keys ----------------------------------------------------
\* The keys of the dict PM25_I2C.read() returns, as the words a space separates.
AQDATA_KEYS ==
    {<<"pm10", "standard">>, <<"pm25", "standard">>, <<"pm100", "standard">>,
     <<"pm10", "env">>, <<"pm25", "env">>, <<"pm100", "env">>,
     <<"particles", "03um">>, <<"particles", "05um">>, <<"particles", "10um">>,
     <<"particles", "25um">>, <<"particles", "50um">>, <<"particles", "100um">>}

\* key.replace(" ", "_")
RECURSIVE ReplaceSpaces(_)
ReplaceSpaces(words) ==
    IF Len(words) = 1 THEN Head(words)
    ELSE Head(words) \o "_" \o ReplaceSpaces(Tail(words))

PM_ATTRS == {ReplaceSpaces(k) : k \in AQDATA_KEYS}
VOLATILE_ATTRS == {"eCO2_ppm", "TVOC_ppb"}
BASELINE_ATTRS == {"baseline_eCO2", "baseline_TVOC"}
CO2_ATTRS == {"scd30.actual_CO2", "scd30.temp_C", "scd30.temp_F", "scd30.rel_humidity"}
PHT_ATTRS == {"ms8607.pressure_hPa", "ms8607.temp_C", "ms8607.temp_F", "ms8607.rel_humidity"}

\* ---- helpers -----------------------------------------------------------
\* `config.get(key) or default`: the default stands in for a missing key and
\* for a falsy value (`falsy` is the falsy value of the key's type).
GetOr(value, falsy, default) ==
    IF value = None \/ value[1] = falsy THEN default ELSE value[1]

\* (faulty variant: every known sensor is the default)
ConfiguredSensorsAllByDefault(cfg) == GetOr(cfg.sensors, {}, KnownSensors)
\* sensors = config.get(CONFIG_SENSORS) or DEFAULT_SENSORS
ConfiguredSensors(cfg) == GetOr(cfg.sensors, {}, DEFAULT_SENSORS)

\* `x = None; if SENSOR_X in sensors: x = Driver(i2c)`
Handle(kind, sensors) == IF kind \in sensors THEN Some(kind) ELSE None

HandleOf(kind) ==
    CASE kind = SENSOR_PM25 -> pm25
      [] kind = SENSOR_SGP30 -> sgp30
      [] kind = SENSOR_SCD30 -> scd30
      [] kind = SENSOR_MS8607 -> ms8607

Enabled == {k \in KnownSensors : HandleOf(k) # None}

\* (faulty variant: the loop body without its `is not None` tests)
StageFromAll(n) == IF n > Len(ReadOrder) THEN "sleep" ELSE ReadOrder[n]
\* The `if x is not None:` tests of the loop body: the first read at or after
\* position n of ReadOrder whose handle is set, or the sleep.
RECURSIVE StageFrom(_)
StageFrom(n) ==
    IF n > Len(ReadOrder) THEN "sleep"
    ELSE IF HandleOf(ReadOrder[n]) # None THEN ReadOrder[n]
    ELSE StageFrom(n + 1)

Position(kind) == CHOOSE n \in 1..Len(ReadOrder) : ReadOrder[n] = kind
After(kind) == StageFrom(Position(kind) + 1)

\* (faulty variant: >= for >)
BaselineDueOffByOne(counter) == counter >= BASELINE_FREQUENCY
\* `if baseline_counter > BASELINE_FREQUENCY:` on the incremented counter
BaselineDue(counter) == counter > BASELINE_FREQUENCY

\* (faulty variant: one pass more)
PollAgainOneMore(n) == n <= POLL_TRIES
\* `for _i in range(30)`: whether the loop body runs for this _i
PollAgain(n) == n < POLL_TRIES

\* (faulty variant: no floor)
SleepForNoFloor(interval, spent) == interval * TicksPerSecond - spent
\* max(sleep_seconds - (time.time() - start), 1), in poll waits
SleepFor(interval, spent) ==
    Max(interval * TicksPerSecond - spent, MIN_SLEEP * TicksPerSecond)

\* The guard that keeps the counters of the model finite.
WithinBounds == reads < MaxReads /\ (sgp30 = None => ticks < MaxTicks)

\* ---- initial states ----------------------------------------------------
InitVars ==
    /\ pc = "read_config"
    /\ pm25 = None /\ sgp30 = None /\ scd30 = None /\ ms8607 = None
    /\ location = "" /\ quiet = FALSE /\ sleep_seconds = 0
    /\ baseline_counter = 0
    /\ i = 0 /\ elapsed = 0
    /\ span_ended = 0
    /\ exit_status = None
    /\ emitted = {} /\ printed = FALSE /\ read_log = <<>> /\ pm_retry = FALSE
    /\ co2_checks = 0 /\ co2_waits = 0 /\ sleeps = <<>>
    /\ ticks = 0 /\ reads = 0 /\ failure = NoFailure

Init == InitVars /\ config \in {None} \cup {Some(c) : c \in LoopConfigs}
InitAll == InitVars /\ config \in {None} \cup {Some(c) : c \in AllConfigs}

\* ---- leaving run() -----------------------------------------------------
\* An exception (SystemExit included) unwinds through start_as_current_span,
\* which ends the span "sniff"; the interpreter exits with status 1.
Unwind(cause) ==
    /\ pc' = "exited"
    /\ exit_status' = Some(1)
    /\ span_ended' = span_ended + 1
    /\ failure' = cause

\* ---- start-up ----------------------------------------------------------
\* config = read_config(); if config is None: print(...); sys.exit(1)
run_read_config ==
    /\ pc = "read_config"
    /\ IF config = None
       THEN /\ Unwind(NoFailure)
       ELSE /\ pc' = "init_electronics"
            /\ UNCHANGED <<exit_status, span_ended, failure>>
    /\ UNCHANGED <<config, handles, params, baseline_counter, i, elapsed, tick_hist,
                   ticks, reads>>

\* pm25, sgp30, scd30, ms8607 = init_electronics(config)
\* (The calibration baseline it hands to the volatile-organic driver is state
\* of the driver, which the program never reads back; it is not modelled.)
init_electronics ==
    /\ pc = "init_electronics"
    /\ LET sensors == ConfiguredSensors(config[1]) IN
         /\ pm25' = Handle(SENSOR_PM25, sensors)
         /\ sgp30' = Handle(SENSOR_SGP30, sensors)
         /\ scd30' = Handle(SENSOR_SCD30, sensors)
         /\ ms8607' = Handle(SENSOR_MS8607, sensors)
    /\ pc' = "params"
    /\ UNCHANGED <<config, params, baseline_counter, i, elapsed, span_ended,
                   exit_status, tick_hist, ticks, reads, failure>>

\* The bus or a driver constructor raises (device absent): the exception
\* leaves init_electronics and run(), whose handles were never assigned.
init_electronics_raises ==
    /\ pc = "init_electronics"
    /\ Unwind("init_electronics")
    /\ UNCHANGED <<config, handles, params, baseline_counter, i, elapsed, tick_hist,
                   ticks, reads>>

\* location, quiet, sleep_seconds and baseline_counter = 0
run_params ==
    /\ pc = "params"
    /\ location' = GetOr(config[1].location, "", "unknown")
    /\ quiet' = GetOr(config[1].quiet, FALSE, FALSE)
    /\ sleep_seconds' = GetOr(config[1].sample_frequency, 0, BASELINE_FREQUENCY)
    /\ baseline_counter' = 0
    /\ pc' = "loop"
    /\ UNCHANGED <<config, handles, i, elapsed, span_ended, exit_status, tick_hist,
                   ticks, reads, failure>>

\* ---- the sample loop ---------------------------------------------------
\* while True: start = time.time(); set_attributes({"location": location})
tick_start ==
    /\ pc = "loop"
    /\ WithinBounds
    /\ elapsed' = 0
    /\ emitted' = {"location"}
    /\ printed' = FALSE
    /\ read_log' = <<>>
    /\ pm_retry' = FALSE
    /\ co2_checks' = 0 /\ co2_waits' = 0
    /\ sleeps' = <<>>
    /\ pc' = StageFrom(1)
    /\ UNCHANGED <<config, handles, params, baseline_counter, i, span_ended,
                   exit_status, ticks, reads, failure>>

\* read_particulates: sensor.read() returns the twelve values
read_particulates ==
    /\ pc = SENSOR_PM25
    /\ read_log' = Append(read_log, SENSOR_PM25)
    /\ printed' = (printed \/ (quiet = FALSE))
    /\ emitted' = emitted \cup PM_ATTRS
    /\ pc' = After(SENSOR_PM25)
    /\ UNCHANGED <<config, handles, params, baseline_counter, i, elapsed, span_ended,
                   exit_status, pm_retry, co2_checks, co2_waits, sleeps, ticks, reads,
                   failure>>

\* (faulty variant: read_particulates without its handler, the RuntimeError
\* leaves run())
read_particulates_retry_raises ==
    /\ pc = SENSOR_PM25
    /\ read_log' = Append(read_log, SENSOR_PM25)
    /\ pm_retry' = TRUE
    /\ Unwind(SENSOR_PM25)
    /\ UNCHANGED <<config, handles, params, baseline_counter, i, elapsed, emitted,
                   printed, co2_checks, co2_waits, sleeps, ticks, reads>>
\* read_particulates: sensor.read() raises RuntimeError; the handler prints
\* the retry notice (whatever quiet is) and returns
read_particulates_retry ==
    /\ pc = SENSOR_PM25
    /\ read_log' = Append(read_log, SENSOR_PM25)
    /\ pm_retry' = TRUE
    /\ printed' = TRUE
    /\ pc' = After(SENSOR_PM25)
    /\ UNCHANGED <<config, handles, params, baseline_counter, i, elapsed, span_ended,
                   exit_status, emitted, co2_checks, co2_waits, sleeps, ticks, reads,
                   failure>>

\* baseline_counter = read_volatiles(sgp30, baseline_counter, quiet)
read_volatiles ==
    /\ pc = SENSOR_SGP30
    /\ read_log' = Append(read_log, SENSOR_SGP30)
    /\ reads' = reads + 1
    /\ printed' = (printed \/ (quiet = FALSE))
    /\ LET counter == baseline_counter + 1 IN
         IF BaselineDue(counter)
         THEN /\ baseline_counter' = 0
              /\ emitted' = emitted \cup VOLATILE_ATTRS \cup BASELINE_ATTRS
         ELSE /\ baseline_counter' = counter
              /\ emitted' = emitted \cup VOLATILE_ATTRS
    /\ pc' = After(SENSOR_SGP30)
    /\ UNCHANGED <<config, handles, params, i, elapsed, span_ended, exit_status,
                   pm_retry, co2_checks, co2_waits, sleeps, ticks, failure>>

\* read_real_co2 is entered with _i = 0 (the model resets i when it returns).
\* One pass of the loop body in which data_available is True.
read_real_co2_ready ==
    /\ pc = SENSOR_SCD30
    /\ PollAgain(i)
    /\ read_log' = IF i = 0 THEN Append(read_log, SENSOR_SCD30) ELSE read_log
    /\ co2_checks' = co2_checks + 1
    /\ printed' = (printed \/ (quiet = FALSE))
    /\ emitted' = emitted \cup CO2_ATTRS
    /\ i' = 0
    /\ pc' = After(SENSOR_SCD30)
    /\ UNCHANGED <<config, handles, params, baseline_counter, elapsed, span_ended,
                   exit_status, pm_retry, co2_waits, sleeps, ticks, reads, failure>>

\* One pass of the loop body in which data_available is False: time.sleep(0.5)
read_real_co2_wait ==
    /\ pc = SENSOR_SCD30
    /\ PollAgain(i)
    /\ read_log' = IF i = 0 THEN Append(read_log, SENSOR_SCD30) ELSE read_log
    /\ co2_checks' = co2_checks + 1
    /\ co2_waits' = co2_waits + 1
    /\ elapsed' = elapsed + 1
    /\ i' = i + 1
    /\ UNCHANGED <<config, pc, handles, params, baseline_counter, span_ended,
                   exit_status, emitted, printed, pm_retry, sleeps, ticks, reads,
                   failure>>

\* range(30) is exhausted: return None
read_real_co2_timeout ==
    /\ pc = SENSOR_SCD30
    /\ ~PollAgain(i)
    /\ i' = 0
    /\ pc' = After(SENSOR_SCD30)
    /\ UNCHANGED <<config, handles, params, baseline_counter, elapsed, span_ended,
                   exit_status, tick_hist, ticks, reads, failure>>

\* read_pht
read_pht ==
    /\ pc = SENSOR_MS8607
    /\ read_log' = Append(read_log, SENSOR_MS8607)
    /\ printed' = (printed \/ (quiet = FALSE))
    /\ emitted' = emitted \cup PHT_ATTRS
    /\ pc' = After(SENSOR_MS8607)
    /\ UNCHANGED <<config, handles, params, baseline_counter, i, elapsed, span_ended,
                   exit_status, pm_retry, co2_checks, co2_waits, sleeps, ticks, reads,
                   failure>>

\* A driver call raises what no handler of the program catches: any error of
\* the volatile-organic, direct-CO2 or pressure/humidity/temperature driver,
\* and any error but RuntimeError of the particulate driver.  It leaves the
\* read function and run().
read_raises ==
    /\ pc \in KnownSensors
    /\ read_log' = IF pc = SENSOR_SCD30 /\ i > 0 THEN read_log ELSE Append(read_log, pc)
    /\ Unwind(pc)
    /\ UNCHANGED <<config, handles, params, baseline_counter, i, elapsed, emitted,
                   printed, pm_retry, co2_checks, co2_waits, sleeps, ticks, reads>>

\* (faulty variant: run() returns after the first pass of the loop body)
tick_sleep_returns ==
    /\ pc = "sleep"
    /\ pc' = "exited"
    /\ exit_status' = Some(0)
    /\ span_ended' = span_ended + 1
    /\ UNCHANGED <<config, handles, params, baseline_counter, i, elapsed, tick_hist,
                   ticks, reads, failure>>
\* sleep = max(sleep_seconds - (time.time()-start), 1); time.sleep(sleep)
\* The bus I/O of the tick took io seconds on top of the poll waits.
tick_sleep ==
    /\ pc = "sleep"
    /\ \E io \in 0..MaxIoDelay :
         /\ elapsed' = elapsed + io * TicksPerSecond
         /\ sleeps' = Append(sleeps, SleepFor(sleep_seconds, elapsed'))
    /\ ticks' = ticks + 1
    /\ pc' = "loop"
    /\ UNCHANGED <<config, handles, params, baseline_counter, i, span_ended,
                   exit_status, emitted, printed, read_log, pm_retry, co2_checks,
                   co2_waits, reads, failure>>

Startup == run_read_config \/ init_electronics \/ init_electronics_raises \/ run_params

Next ==
    \/ run_read_config
    \/ init_electronics
    \/ init_electronics_raises
    \/ run_params
    \/ tick_start
    \/ read_particulates
    \/ read_particulates_retry
    \/ read_volatiles
    \/ read_real_co2_ready
    \/ read_real_co2_wait
    \/ read_real_co2_timeout
    \/ read_pht
    \/ read_raises
    \/ tick_sleep

\* The sample loop, on every configuration of LoopConfigs.
Spec == Init /\ [][Next]_vars

\* The same, with the single thread of the program always taking its next step.
LiveSpec == Init /\ [][Next]_vars /\ WF_vars(Next)

\* The start-up code alone, on every configuration of AllConfigs.
SpecStartup == InitAll /\ [][Startup]_vars

TypeOK ==
    /\ pc \in {"read_config", "init_electronics", "params", "loop", "sleep", "exited"}
                \cup KnownSensors
    /\ baseline_counter \in 0..BASELINE_FREQUENCY
    /\ i \in 0..POLL_TRIES
    /\ span_ended \in 0..1
    /\ ticks \in Nat /\ reads \in Nat

\* ---- what the claims speak of ------------------------------------------
\* the enabled sensors, in the order of the loop body
EnabledOrder == SelectSeq(ReadOrder, LAMBDA k : HandleOf(k) # None)
IsPrefix(s, t) == Len(s) <= Len(t) /\ \A n \in 1..Len(s) : s[n] = t[n]
\* the step is a call of read_volatiles that returns
VolatileRead == reads' = reads + 1
\* the step is a particulate read that raises RuntimeError
ParticulateRetry == pm_retry' /\ ~pm_retry
\* read_real_co2 has returned in this tick
Co2Returned ==
    /\ SENSOR_SCD30 \in {read_log[n] : n \in 1..Len(read_log)}
    /\ pc # SENSOR_SCD30
    /\ failure # SENSOR_SCD30
\* a tick has run to its end and the next has not started
TickDone == pc = "loop" /\ ticks > 0

C2_Original == pc = "loop" => span_ended = ticks

\* C3 (as claimed): a failing read of any of the four sensors neither
\* terminates the loop nor keeps the other enabled sensors from being read.
C3_Original ==
    /\ (failure \in KnownSensors \/ pm_retry) => pc # "exited"
    /\ (failure \in KnownSensors \/ pm_retry) /\ pc \in {"sleep", "loop"}
           => read_log = EnabledOrder

\* C3 (amended): only the RuntimeError of the particulate read is guarded.
\* After it, the exception does not leave run() and, unless one of them
\* fails itself, every other enabled sensor is read in that tick and the
\* tick reaches its sleep.  Any other failure of a read leaves run(): the
\* failing read is the last of the tick and the process has terminated.
C3_Amended ==
    /\ pm_retry => failure # SENSOR_PM25
    /\ pm_retry /\ failure = NoFailure => pc # "exited" /\ exit_status = None
    /\ pm_retry /\ pc \in {"sleep", "loop"} => read_log = EnabledOrder
    /\ failure \in KnownSensors =>
          /\ pc = "exited"
          /\ read_log # <<>> /\ read_log[Len(read_log)] = failure
          /\ sleeps = <<>>

\* the particulate read failed and the three other sensors were read
C3_Witness ==
    /\ pm_retry /\ pc = "sleep"
    /\ read_log = <<SENSOR_PM25, SENSOR_SGP30, SENSOR_SCD30, SENSOR_MS8607>>

\* C4: a particulate read that raises RuntimeError sets no attribute, leaves
\* the baseline counter alone and returns to the loop body, which goes on to
\* the next enabled sensor or the sleep; a tick that ends after it has set no
\* particulate attribute and has slept once; and whatever happened before,
\* a tick of a run with the particulate sensor starts with its read.
C4_ParticulateRetry ==
    /\ [][ParticulateRetry =>
             /\ emitted' = emitted
             /\ baseline_counter' = baseline_counter
             /\ pc' = After(SENSOR_PM25)
             /\ exit_status' = None /\ failure' = NoFailure]_vars
    /\ [](pm_retry => emitted \cap PM_ATTRS = {})
    /\ [](pm_retry /\ TickDone => read_log = EnabledOrder /\ Len(sleeps) = 1)
    /\ [][pc = "loop" /\ pc' # "loop" /\ pm25 # None => pc' = SENSOR_PM25]_vars

\* the particulate read is retried in the third tick, which runs to its end
C4_Witness == pm_retry /\ TickDone /\ ticks >= 3 /\ Cardinality(Enabled) >= 2

\* C5: read_real_co2 checks data_available at most 30 times and waits 0.5 s
\* after each check that fails, 15 s at most; the check that succeeds sets
\* the four attributes and is the last check and wait of the tick; after 30
\* failed checks no attribute of the sensor is set and the loop body goes on
\* to the pressure/humidity/temperature read (or the sleep).
C5_Co2Poll ==
    /\ [](co2_checks <= 30 /\ co2_waits <= 30 /\ co2_waits <= co2_checks)
    /\ [](pc = SENSOR_SCD30 => co2_waits = co2_checks /\ CO2_ATTRS \cap emitted = {})
    /\ [](Co2Returned =>
            \/ CO2_ATTRS \subseteq emitted /\ co2_waits = co2_checks - 1
            \/ CO2_ATTRS \cap emitted = {} /\ co2_checks = 30 /\ co2_waits = 30)
    /\ [](SENSOR_SCD30 \notin Enabled => co2_checks = 0 /\ CO2_ATTRS \cap emitted = {})
    /\ [][(co2_checks' > co2_checks \/ co2_waits' > co2_waits)
             => CO2_ATTRS \cap emitted = {}]_vars
    /\ [][pc = SENSOR_SCD30 /\ pc' # SENSOR_SCD30 /\ failure' = NoFailure
             => pc' = (IF ms8607 # None THEN SENSOR_MS8607 ELSE "sleep")]_vars

\* the sensor was never ready: 30 checks, 15 s, nothing set, on to read_pht
C5_Witness ==
    /\ pc = SENSOR_MS8607 /\ co2_checks = 30 /\ co2_waits = 30
    /\ CO2_ATTRS \cap emitted = {}

C7_Original ==
    exit_status # None =>
        /\ exit_status = Some(1)
        /\ config = None
        /\ Enabled = {} /\ ticks = 0 /\ read_log = <<>>

\* C7 (amended): run() never returns normally.  The process exits, with
\* status 1, only if the configuration cannot be loaded (then no sensor is
\* initialized and no tick executed) or if an exception no handler catches
\* leaves init_electronics or a sensor read.  As long as the process runs,
\* every tick that starts comes to its end, and after every tick the next
\* one starts.
C7_Amended ==
    /\ [](exit_status # None =>
            /\ pc = "exited" /\ exit_status = Some(1)
            /\ config = None \/ failure # NoFailure)
    /\ [](pc = "exited" => exit_status = Some(1))
    /\ [](pc = "exited" /\ config = None =>
            Enabled = {} /\ ticks = 0 /\ read_log = <<>> /\ emitted = {})
    /\ [](pc \in KnownSensors \cup {"sleep"} => <>(pc \in {"loop", "exited"}))
    /\ [](pc = "loop" /\ WithinBounds => <>(pc # "loop"))

\* a tick is under way after two ticks that ran to their end
C7_Witness == ticks >= 2 /\ pc = "sleep" /\ exit_status = None

\* C8 (as claimed): without a sensors list exactly the particulate and the
\* volatile-organic sensor are enabled; with a sensors list exactly the
\* listed kinds are.
C8_Original ==
    pc \in {"params", "loop"} =>
        IF config[1].sensors = None
        THEN Enabled = {SENSOR_PM25, SENSOR_SGP30}
        ELSE Enabled = config[1].sensors[1] \cap KnownSensors

\* C8 (amended): without a sensors list, and with an empty one, exactly the
\* particulate and the volatile-organic sensor are enabled; with a non-empty
\* sensors list exactly the listed kinds the program knows are.
C8_Amended ==
    pc \in {"params", "loop"} =>
        IF config[1].sensors = None \/ config[1].sensors = Some({})
        THEN /\ Enabled = {SENSOR_PM25, SENSOR_SGP30}
             /\ pm25 # None /\ sgp30 # None /\ scd30 = None /\ ms8607 = None
        ELSE Enabled = config[1].sensors[1] \cap KnownSensors

\* an empty sensors list has enabled the two default sensors
C8_Witness ==
    /\ pc = "params"
    /\ config[1].sensors = Some({})
    /\ Enabled = {SENSOR_PM25, SENSOR_SGP30}

\* C9: the reads of a tick are those of the enabled sensors, each at most
\* once, in the order particulate, volatile-organic, direct-CO2,
\* pressure/humidity/temperature, after the location attribute is set; a
\* sensor that is not configured is never read; a tick that runs to its end
\* has read every enabled sensor.
C9_ReadOrder ==
    /\ IsPrefix(read_log, EnabledOrder)
    /\ \A n \in 1..Len(read_log) : HandleOf(read_log[n]) # None
    /\ read_log # <<>> => "location" \in emitted
    /\ pc \in KnownSensors => HandleOf(pc) # None
    /\ pc = "sleep" \/ TickDone => read_log = EnabledOrder

\* the volatile-organic sensor is not configured; the others are read in order
C9_Witness ==
    /\ pc = "sleep"
    /\ read_log = <<SENSOR_PM25, SENSOR_SCD30, SENSOR_MS8607>>

\* C10 (as claimed): with the quiet flag set no tick writes to the console.
C10_Original == quiet = TRUE => printed = FALSE
====
